---- MODULE Spec2Model ----
(***************************************************************************)
(* ObsidianOrganizer UI: the streaming response decoder                    *)
(* ApiClient.chatStream (src/ui/src/services/api.ts), its consumer         *)
(* ChatView.sendMessage, and the session that SetupView and ChatView keep  *)
(* in localStorage.                                                        *)
(*                                                                         *)
(* Text is a sequence of one-character strings.  The response body is a    *)
(* sequence of bytes: every ASCII byte is written as its character, and    *)
(* the two bytes of the UTF-8 encoding of U+00E9 are written "C3" (lead    *)
(* byte) and "A9" (continuation byte).  The decoded character U+00E9 is    *)
(* written "e'" and the replacement character U+FFFD is written "FFFD".    *)
(***************************************************************************)
EXTENDS Integers, Sequences, FiniteSets, TLC

(***************************************************************************)
(* Bounds                                                                  *)
(***************************************************************************)
MaxItems == 2
MaxBody == 48
MaxLiveBody == 40

(***************************************************************************)
(* Program constants                                                       *)
(***************************************************************************)
EventPrefixLen == 6
DataPrefixLen == 5

LF == "\n"
CR == "\r"
TAB == "\t"
QUOTE == "\""
BSL == "\\"
LeadByte == "C3"
ContByte == "A9"
EAcute == "e'"
Replacement == "FFFD"

EVENT == <<"e", "v", "e", "n", "t", ":">>
DATA == <<"d", "a", "t", "a", ":">>
TOKEN == <<"t", "o", "k", "e", "n">>
DONE == <<"d", "o", "n", "e">>

(***************************************************************************)
(* JavaScript values: undefined, and the values JSON.parse can return      *)
(***************************************************************************)
Undefined == [t |-> "undefined", v |-> <<>>]
Str(s) == [t |-> "string", v |-> s]
Num(s) == [t |-> "number", v |-> s]
Lit(s) == [t |-> "literal", v |-> s]
SyntaxError == [t |-> "SyntaxError", v |-> <<>>]

(***************************************************************************)
(* String.prototype.startsWith, slice(n), trim, split('\n')                *)
(***************************************************************************)
StartsWith(s, p) == Len(s) >= Len(p) /\ SubSeq(s, 1, Len(p)) = p

Slice(s, n) == SubSeq(s, n + 1, Len(s))

IsWhiteSpace(c) == c \in {" ", TAB, CR, LF}

RECURSIVE TrimStart(_)
TrimStart(s) ==
  IF s # <<>> /\ IsWhiteSpace(s[1]) THEN TrimStart(Tail(s)) ELSE s

RECURSIVE TrimEnd(_)
TrimEnd(s) ==
  IF s # <<>> /\ IsWhiteSpace(s[Len(s)])
  THEN TrimEnd(SubSeq(s, 1, Len(s) - 1)) ELSE s

Trim(s) == TrimEnd(TrimStart(s))

\* s.split('\n'): the segments between newlines, always at least one.
Split(s) ==
  LET P == {i \in 1..Len(s) : s[i] = LF}
      n == Cardinality(P)
      Sep(j) == IF j = 0 THEN 0
                ELSE IF j = n + 1 THEN Len(s) + 1
                ELSE CHOOSE p \in P : Cardinality({q \in P : q < p}) = j - 1
  IN [j \in 1..(n + 1) |-> SubSeq(s, Sep(j - 1) + 1, Sep(j) - 1)]

\* lines.pop(): the array without its last element / the last element.
Front(segs) == SubSeq(segs, 1, Len(segs) - 1)
Last(segs) == segs[Len(segs)]

(***************************************************************************)
(* TextDecoder.decode(value, { stream: true }) for UTF-8, restricted to    *)
(* ASCII and one two-byte character.  pending is the decoder's internal    *)
(* state: the lead byte of a character whose continuation byte has not     *)
(* arrived yet.  The result is the decoded text and the new state.         *)
(* A lead byte not followed by a continuation byte, and a continuation     *)
(* byte not preceded by a lead byte, decode to U+FFFD.                     *)
(***************************************************************************)
Emitted(c) == c # ""

\* The character completed at byte i of bytes ("" when byte i completes
\* none); flush tells whether an incomplete character at the end is
\* emitted as U+FFFD (end of input) or kept for the next call.
DecodeAt(bytes, i, flush) ==
  IF bytes[i] = ContByte
  THEN (IF i > 1 /\ bytes[i - 1] = LeadByte THEN EAcute ELSE Replacement)
  ELSE IF bytes[i] = LeadByte
  THEN (IF i = Len(bytes) THEN (IF flush THEN Replacement ELSE "")
        ELSE IF bytes[i + 1] = ContByte THEN "" ELSE Replacement)
  ELSE bytes[i]

DecodeBytes(bytes, flush) ==
  [text |-> SelectSeq([i \in 1..Len(bytes) |-> DecodeAt(bytes, i, flush)],
                      Emitted),
   pending |-> IF ~flush /\ bytes # <<>> /\ bytes[Len(bytes)] = LeadByte
               THEN <<LeadByte>> ELSE <<>>]

\* decode(value) without the stream option: an incomplete character at the
\* end of the chunk is flushed as U+FFFD and no state is carried over.
DecodeNoStream(pending, chunk) == DecodeBytes(chunk, TRUE)

\* decode(value, { stream: true })
DecodeStream(pending, chunk) == DecodeBytes(pending \o chunk, FALSE)

(***************************************************************************)
(* JSON.parse on the texts of this model: string literals (with the        *)
(* escapes \" \\ \n), integer literals, true, false, null.  Anything else  *)
(* over the model's alphabet is a SyntaxError.                             *)
(***************************************************************************)
Digits == {"0", "1", "2", "3", "4", "5", "6", "7", "8", "9"}

RECURSIVE StringBody(_, _, _)
StringBody(s, i, out) ==
  IF i > Len(s) THEN SyntaxError
  ELSE IF s[i] = QUOTE THEN (IF i = Len(s) THEN Str(out) ELSE SyntaxError)
  ELSE IF s[i] = BSL
    THEN IF i + 1 > Len(s) THEN SyntaxError
         ELSE IF s[i + 1] = QUOTE THEN StringBody(s, i + 2, Append(out, QUOTE))
         ELSE IF s[i + 1] = BSL THEN StringBody(s, i + 2, Append(out, BSL))
         ELSE IF s[i + 1] = "n" THEN StringBody(s, i + 2, Append(out, LF))
         ELSE SyntaxError
  ELSE IF s[i] \in {LF, CR, TAB} THEN SyntaxError
  ELSE StringBody(s, i + 1, Append(out, s[i]))

IsInteger(s) ==
  LET d == IF s # <<>> /\ s[1] = "-" THEN Tail(s) ELSE s
  IN /\ d # <<>>
     /\ \A i \in 1..Len(d) : d[i] \in Digits
     /\ (Len(d) > 1 => d[1] # "0")

JSONParse(s) ==
  LET t == Trim(s)
  IN IF t = <<>> THEN SyntaxError
     ELSE IF t[1] = QUOTE THEN StringBody(t, 2, <<>>)
     ELSE IF IsInteger(t) THEN Num(t)
     ELSE IF t \in {<<"t", "r", "u", "e">>, <<"f", "a", "l", "s", "e">>,
                    <<"n", "u", "l", "l">>} THEN Lit(t)
     ELSE SyntaxError

(***************************************************************************)
(* The pieces of the line loop of chatStream                               *)
(***************************************************************************)
IsEventLine(line) == StartsWith(line, EVENT)

\* else { ... } in place of else if (line.startsWith('data:')): every line
\* that is not an event: line is taken as a data: line.
IsDataLineAny(line) == ~IsEventLine(line)

IsDataLine(line) == ~IsEventLine(line) /\ StartsWith(line, DATA)

\* line.slice(6) without trim()
EventTypeRaw(line) == Slice(line, EventPrefixLen)

\* line.slice(6).trim()
EventType(line) == Trim(Slice(line, EventPrefixLen))

\* line.slice(5) without trim()
DataOfRaw(line) == Slice(line, DataPrefixLen)

\* line.slice(5).trim()
DataOf(line) == Trim(Slice(line, DataPrefixLen))

\* let finalThreadId = ''
InitialThreadIdEmpty(id) == <<>>

\* request.thread_id || ''
InitialThreadId(id) == IF id = Undefined \/ id = Str(<<>>) THEN <<>> ELSE id.v

\* buffer = '' after the split: the unterminated last segment is dropped.
PendingEmpty(segs) == <<>>

\* buffer = lines.pop() || ''
PendingOf(segs) == Last(segs)

\* lines without lines.pop(): the unterminated last segment is kept.
LinesAll(segs) == segs

\* lines, after lines.pop()
LinesOf(segs) == Front(segs)

\* finalThreadId = JSON.parse(data), where that gives a string
DoneValueParsed(data) ==
  IF JSONParse(data).t = "string" THEN JSONParse(data).v ELSE data

\* finalThreadId = data
DoneValue(data) == data

(***************************************************************************)
(* Response bodies: concatenations of at most MaxItems of these items, of  *)
(* at most MaxBody bytes                                                   *)
(***************************************************************************)
SP == <<" ">>
NL == <<LF>>

ItTokenA == EVENT \o SP \o TOKEN \o NL \o NL \o DATA \o <<QUOTE, "A", QUOTE>> \o NL \o NL
ItTokenE == EVENT \o TOKEN \o NL \o DATA \o <<QUOTE, LeadByte, ContByte, BSL, "n", QUOTE>> \o NL
ItDoneQ == EVENT \o DONE \o NL \o DATA \o SP \o <<QUOTE, "t", "2", QUOTE>> \o SP \o NL
ItDoneEmpty == EVENT \o SP \o DONE \o <<CR>> \o NL \o DATA \o <<CR>> \o NL
ItBad == EVENT \o SP \o TOKEN \o NL \o DATA \o SP \o <<"x">> \o NL \o NL
ItNum == EVENT \o TOKEN \o NL \o DATA \o SP \o <<"1">> \o NL
ItEvent == EVENT \o SP \o TOKEN \o NL
ItData == DATA \o SP \o <<QUOTE, "B", QUOTE>> \o NL
ItOther == EVENT \o SP \o <<"T">> \o Tail(TOKEN) \o NL \o <<":">> \o NL \o DATA \o <<QUOTE, "A", QUOTE>> \o NL
ItPartial == DATA \o <<QUOTE, "A", QUOTE>>

Items == <<ItTokenA, ItTokenE, ItDoneQ, ItDoneEmpty, ItBad, ItNum, ItEvent,
          ItData, ItOther, ItPartial>>

\* A token event whose payload is the empty string, and the items with it.
ItEmpty == EVENT \o TOKEN \o NL \o DATA \o <<QUOTE, QUOTE>> \o NL
AllItems == Append(Items, ItEmpty)

RECURSIVE Concat(_)
Concat(is) ==
  IF is = <<>> THEN <<>> ELSE AllItems[Head(is)] \o Concat(Tail(is))

\* The same bytes with every line feed preceded by a carriage return.
RECURSIVE ToCRLF(_)
ToCRLF(s) ==
  IF s = <<>> THEN <<>>
  ELSE (IF Head(s) = LF THEN <<CR, LF>> ELSE <<Head(s)>>) \o ToCRLF(Tail(s))

ItemsCRLF == [i \in DOMAIN Items |-> ToCRLF(Items[i])]

RECURSIVE ConcatCRLF(_)
ConcatCRLF(is) ==
  IF is = <<>> THEN <<>> ELSE ItemsCRLF[Head(is)] \o ConcatCRLF(Tail(is))

\* The sequences of at most n items whose bytes number at most MaxBody.
RECURSIVE Bodies(_)
Bodies(n) ==
  IF n = 0 THEN {<<>>}
  ELSE LET B == Bodies(n - 1)
       IN B \cup {b \in {Append(c, i) : c \in B, i \in DOMAIN Items} :
                    Len(Concat(b)) <= MaxBody}

ThreadIds == {Undefined, Str(<<"t", "0">>)}

FetchOutcomes == {"ok", "rejected", "not_ok", "no_body"}

(***************************************************************************)
(* State                                                                   *)
(***************************************************************************)
VARIABLES
  body,           \* the response body, as the items it is made of
  reqThreadId,    \* request.thread_id
  pc,             \* position of the generator
  pos,            \* number of bytes of wire delivered by reader.read()
  decoder,        \* internal state of the TextDecoder
  buffer,         \* buffer
  lines,          \* the lines of the current chunk not yet iterated
  currentEvent,   \* currentEvent
  finalThreadId,  \* finalThreadId
  tokens,         \* the values yielded to the consumer, in order
  result,         \* the return value of the generator
  err,            \* the error thrown to the consumer
  reader,         \* the ReadableStreamDefaultReader of response.body
  bodyRead,       \* reader.read() has been called
  pulls,          \* number of next() calls of the consumer
  exchange,       \* outcome of the HTTP exchange (history)
  cuts,           \* where chunks have ended: inside a line, inside a
                  \* character (history)
  processed,      \* number of iterations of the line loop begun (history)
  crlf,           \* the body ends its lines with CR LF instead of LF
  route,          \* the view the router shows: "setup" or "chat"
  storage,        \* localStorage: the items vaultPath and threadId
  messages,       \* ChatView: messages
  inputMessage,   \* ChatView: inputMessage
  isLoading,      \* ChatView: isLoading
  threadId,       \* ChatView: threadId
  chatVaultPath,  \* ChatView: vaultPath
  vpc,            \* ChatView: position of onMounted / sendMessage
  taken,          \* ChatView: tokens of the current stream appended so far
  requests,       \* ChatView: number of requests begun (history)
  setupVaultPath, \* SetupView: vaultPath
  isValidating,   \* SetupView: isValidating
  setupError,     \* SetupView: error
  spc,            \* SetupView: position of validateAndContinue
  uuid,           \* SetupView: threadId of the validateAndContinue in flight
  uuids           \* number of crypto.randomUUID() calls made (history)

\* The generator of chatStream, the ChatView, the SetupView
stream == <<body, reqThreadId, pc, pos, decoder, buffer, lines,
            currentEvent, finalThreadId, tokens, result, err, reader,
            bodyRead, pulls, exchange, cuts, processed, crlf>>
chat == <<messages, inputMessage, isLoading, threadId, chatVaultPath, vpc,
          taken, requests>>
setup == <<setupVaultPath, isValidating, setupError, spc, uuid, uuids>>
ui == <<route, storage, chat, setup>>

vars == <<stream, ui>>

input == <<body, reqThreadId, crlf>>

\* The bytes of the response body
wire == IF crlf THEN ConcatCRLF(body) ELSE Concat(body)

\* localStorage.getItem of an item that is not stored
Null == [t |-> "null", v |-> <<>>]

\* The views as their setup scripts leave them, with nothing stored
ViewsAtRest ==
  /\ route = "setup"
  /\ storage = [vaultPath |-> Null, threadId |-> Null]
  /\ messages = <<>>
  /\ inputMessage = <<>>
  /\ isLoading = FALSE
  /\ threadId = <<>>
  /\ chatVaultPath = <<>>
  /\ vpc = "created"
  /\ taken = 0
  /\ requests = 0
  /\ setupVaultPath = <<>>
  /\ isValidating = FALSE
  /\ setupError = <<>>
  /\ spc = "idle"
  /\ uuid = <<>>
  /\ uuids = 0

Init ==
  /\ body \in Bodies(MaxItems)
  /\ reqThreadId \in ThreadIds
  /\ pc = "start"
  /\ pos = 0
  /\ decoder = <<>>
  /\ buffer = <<>>
  /\ lines = <<>>
  /\ currentEvent = <<>>
  /\ finalThreadId = <<>>
  /\ tokens = <<>>
  /\ result = Undefined
  /\ err = "none"
  /\ reader = "none"
  /\ bodyRead = FALSE
  /\ pulls = 0
  /\ exchange = "pending"
  /\ cuts = {}
  /\ processed = 0
  /\ crlf = FALSE
  /\ ViewsAtRest

\* The kinds of place a chunk ending after byte n of the body ends at.
CutKinds(n) ==
  IF n >= Len(wire) THEN {}
  ELSE (IF wire[n] # LF THEN {"line"} ELSE {}) \cup
       (IF wire[n] = LeadByte /\ wire[n + 1] = ContByte THEN {"char"} ELSE {})

\* Where the generator stands once the lines in rest are what is left of
\* the for loop: in the loop, or back at await reader.read().
AfterLine(rest) == IF rest = <<>> THEN "read" ELSE "lines"

(***************************************************************************)
(* The consumer's first next(): the body starts and issues the fetch       *)
(***************************************************************************)
Pull ==
  /\ pc = "start"
  /\ processed' = processed
  /\ UNCHANGED ui
  /\ pc' = "fetch"
  /\ pulls' = pulls + 1
  /\ UNCHANGED <<input, pos, decoder, buffer, lines, currentEvent,
                 finalThreadId, tokens, result, err, reader, bodyRead,
                 exchange, cuts>>

\* The fetch settles and response.ok is not looked at: only a rejected
\* fetch and a missing body fail.
FetchSettledNoCheck ==
  /\ pc = "fetch"
  /\ processed' = processed
  /\ UNCHANGED ui
  /\ \E o \in FetchOutcomes :
       /\ exchange' = o
       /\ IF o \in {"ok", "not_ok"}
          THEN /\ reader' = "locked"
               /\ finalThreadId' = InitialThreadId(reqThreadId)
               /\ pc' = "read"
               /\ bodyRead' = TRUE
               /\ err' = err
          ELSE /\ pc' = "failed"
               /\ err' = o
               /\ UNCHANGED <<reader, finalThreadId, bodyRead>>
  /\ UNCHANGED <<input, pos, decoder, buffer, lines, currentEvent,
                 tokens, result, pulls, cuts>>

(***************************************************************************)
(* await fetch(...) settles; response.ok, response.body?.getReader()       *)
(***************************************************************************)
FetchSettled ==
  /\ pc = "fetch"
  /\ processed' = processed
  /\ UNCHANGED ui
  /\ \E o \in FetchOutcomes :
       /\ exchange' = o
       /\ IF o = "ok"
          THEN /\ reader' = "locked"
               /\ finalThreadId' = InitialThreadId(reqThreadId)
               /\ pc' = "read"
               /\ bodyRead' = TRUE
               /\ err' = err
          ELSE /\ pc' = "failed"
               /\ err' = o
               /\ UNCHANGED <<reader, finalThreadId, bodyRead>>
  /\ UNCHANGED <<input, pos, decoder, buffer, lines, currentEvent,
                 tokens, result, pulls, cuts>>

\* A chunk is taken from the source also while the generator is suspended
\* at a yield (the body is pumped ahead of the consumer); its lines are
\* queued behind those not yet iterated.
ReadChunkEager ==
  /\ pc \in {"read", "yield"}
  /\ processed' = processed
  /\ UNCHANGED ui
  /\ \E k \in 1..(Len(wire) - pos) :
       LET d == DecodeStream(decoder, SubSeq(wire, pos + 1, pos + k))
           segs == Split(buffer \o d.text)
       IN /\ pos' = pos + k
          /\ decoder' = d.pending
          /\ buffer' = PendingOf(segs)
          /\ lines' = lines \o LinesOf(segs)
          /\ pc' = IF pc = "yield" THEN "yield" ELSE AfterLine(LinesOf(segs))
          /\ cuts' = cuts \cup CutKinds(pos + k)
  /\ UNCHANGED <<input, currentEvent, finalThreadId, tokens, result, err,
                 reader, bodyRead, pulls, exchange>>

(***************************************************************************)
(* await reader.read() resolves with a chunk of k bytes                    *)
(***************************************************************************)
ReadChunk ==
  /\ pc = "read"
  /\ processed' = processed
  /\ UNCHANGED ui
  /\ \E k \in 1..(Len(wire) - pos) :
       LET d == DecodeStream(decoder, SubSeq(wire, pos + 1, pos + k))
           segs == Split(buffer \o d.text)
       IN /\ pos' = pos + k
          /\ decoder' = d.pending
          /\ buffer' = PendingOf(segs)
          /\ lines' = LinesOf(segs)
          /\ pc' = AfterLine(LinesOf(segs))
          /\ cuts' = cuts \cup CutKinds(pos + k)
  /\ UNCHANGED <<input, currentEvent, finalThreadId, tokens, result, err,
                 reader, bodyRead, pulls, exchange>>

\* End of stream where a non-empty buffer is first run through the line
\* loop as a last line.
ReadDoneFlush ==
  /\ pc = "read"
  /\ processed' = processed
  /\ UNCHANGED ui
  /\ pos = Len(wire)
  /\ IF buffer # <<>>
     THEN /\ lines' = <<buffer>>
          /\ buffer' = <<>>
          /\ pc' = "lines"
          /\ UNCHANGED result
     ELSE /\ pc' = "done"
          /\ result' = Str(finalThreadId)
          /\ UNCHANGED <<buffer, lines>>
  /\ UNCHANGED <<input, pos, decoder, currentEvent, finalThreadId, tokens,
                 err, reader, bodyRead, pulls, exchange, cuts>>

(***************************************************************************)
(* await reader.read() resolves with done: break, return finalThreadId     *)
(***************************************************************************)
ReadDone ==
  /\ pc = "read"
  /\ processed' = processed
  /\ UNCHANGED ui
  /\ pos = Len(wire)
  /\ pc' = "done"
  /\ result' = Str(finalThreadId)
  /\ UNCHANGED <<input, pos, decoder, buffer, lines, currentEvent,
                 finalThreadId, tokens, err, reader, bodyRead, pulls,
                 exchange, cuts>>

(***************************************************************************)
(* await reader.read() rejects: the catch block rethrows                   *)
(***************************************************************************)
ReadError ==
  /\ pc = "read"
  /\ processed' = processed
  /\ UNCHANGED ui
  /\ pc' = "failed"
  /\ err' = "read_failed"
  /\ UNCHANGED <<input, pos, decoder, buffer, lines, currentEvent,
                 finalThreadId, tokens, result, reader, bodyRead, pulls,
                 exchange, cuts>>

\* The line loop without the try/catch around JSON.parse: a payload that
\* fails to decode ends the generator with the SyntaxError.
ProcessLineUncaught ==
  /\ pc = "lines"
  /\ lines # <<>>
  /\ UNCHANGED ui
  /\ LET line == Head(lines)
         rest == Tail(lines)
     IN /\ lines' = rest
        /\ processed' = processed + 1
        /\ IF IsEventLine(line)
           THEN /\ currentEvent' = EventType(line)
                /\ pc' = AfterLine(rest)
                /\ UNCHANGED <<finalThreadId, tokens>>
           ELSE IF IsDataLine(line)
           THEN IF currentEvent = TOKEN
                THEN LET token == JSONParse(DataOf(line))
                     IN IF token # SyntaxError
                        THEN /\ tokens' = Append(tokens, token)
                             /\ pc' = "yield"
                             /\ UNCHANGED <<currentEvent, finalThreadId>>
                        ELSE /\ pc' = "failed"
                             /\ UNCHANGED <<currentEvent, finalThreadId,
                                            tokens>>
                ELSE IF currentEvent = DONE
                THEN /\ finalThreadId' = DoneValue(DataOf(line))
                     /\ currentEvent' = <<>>
                     /\ pc' = AfterLine(rest)
                     /\ UNCHANGED tokens
                ELSE /\ currentEvent' = <<>>
                     /\ pc' = AfterLine(rest)
                     /\ UNCHANGED <<finalThreadId, tokens>>
           ELSE /\ pc' = AfterLine(rest)
                /\ UNCHANGED <<currentEvent, finalThreadId, tokens>>
  /\ err' = IF pc' = "failed" THEN "SyntaxError" ELSE err
  /\ UNCHANGED <<input, pos, decoder, buffer, result, reader, bodyRead,
                 pulls, exchange, cuts>>

\* The line loop where a done event ends the stream: return finalThreadId
\* right after finalThreadId = data.
ProcessLineStopAtDone ==
  /\ pc = "lines"
  /\ lines # <<>>
  /\ UNCHANGED ui
  /\ LET line == Head(lines)
         rest == Tail(lines)
     IN /\ lines' = rest
        /\ processed' = processed + 1
        /\ IF IsEventLine(line)
           THEN /\ currentEvent' = EventType(line)
                /\ pc' = AfterLine(rest)
                /\ UNCHANGED <<finalThreadId, tokens>>
           ELSE IF IsDataLine(line)
           THEN IF currentEvent = TOKEN
                THEN LET token == JSONParse(DataOf(line))
                     IN IF token # SyntaxError
                        THEN /\ tokens' = Append(tokens, token)
                             /\ pc' = "yield"
                             /\ UNCHANGED <<currentEvent, finalThreadId>>
                        ELSE /\ currentEvent' = <<>>
                             /\ pc' = AfterLine(rest)
                             /\ UNCHANGED <<finalThreadId, tokens>>
                ELSE IF currentEvent = DONE
                THEN /\ finalThreadId' = DoneValue(DataOf(line))
                     /\ currentEvent' = <<>>
                     /\ pc' = "done"
                     /\ UNCHANGED tokens
                ELSE /\ currentEvent' = <<>>
                     /\ pc' = AfterLine(rest)
                     /\ UNCHANGED <<finalThreadId, tokens>>
           ELSE /\ pc' = AfterLine(rest)
                /\ UNCHANGED <<currentEvent, finalThreadId, tokens>>
  /\ result' = IF pc' = "done" THEN Str(finalThreadId') ELSE result
  /\ UNCHANGED <<input, pos, decoder, buffer, err, reader, bodyRead, pulls,
                 exchange, cuts>>

\* The line loop with  else { finalThreadId = data }  in place of
\* else if (currentEvent === 'done'): every type but token is taken as done.
ProcessLineAnyType ==
  /\ pc = "lines"
  /\ lines # <<>>
  /\ UNCHANGED ui
  /\ LET line == Head(lines)
         rest == Tail(lines)
     IN /\ lines' = rest
        /\ processed' = processed + 1
        /\ IF IsEventLine(line)
           THEN /\ currentEvent' = EventType(line)
                /\ pc' = AfterLine(rest)
                /\ UNCHANGED <<finalThreadId, tokens>>
           ELSE IF IsDataLine(line)
           THEN IF currentEvent = TOKEN
                THEN LET token == JSONParse(DataOf(line))
                     IN IF token # SyntaxError
                        THEN /\ tokens' = Append(tokens, token)
                             /\ pc' = "yield"
                             /\ UNCHANGED <<currentEvent, finalThreadId>>
                        ELSE /\ currentEvent' = <<>>
                             /\ pc' = AfterLine(rest)
                             /\ UNCHANGED <<finalThreadId, tokens>>
                ELSE /\ finalThreadId' = DoneValue(DataOf(line))
                     /\ currentEvent' = <<>>
                     /\ pc' = AfterLine(rest)
                     /\ UNCHANGED tokens
           ELSE /\ pc' = AfterLine(rest)
                /\ UNCHANGED <<currentEvent, finalThreadId, tokens>>
  /\ UNCHANGED <<input, pos, decoder, buffer, result, err, reader,
                 bodyRead, pulls, exchange, cuts>>

\* The line loop with  if (!finalThreadId) finalThreadId = data : the first
\* id wins.
ProcessLineFirstDone ==
  /\ pc = "lines"
  /\ lines # <<>>
  /\ UNCHANGED ui
  /\ LET line == Head(lines)
         rest == Tail(lines)
     IN /\ lines' = rest
        /\ processed' = processed + 1
        /\ IF IsEventLine(line)
           THEN /\ currentEvent' = EventType(line)
                /\ pc' = AfterLine(rest)
                /\ UNCHANGED <<finalThreadId, tokens>>
           ELSE IF IsDataLine(line)
           THEN IF currentEvent = TOKEN
                THEN LET token == JSONParse(DataOf(line))
                     IN IF token # SyntaxError
                        THEN /\ tokens' = Append(tokens, token)
                             /\ pc' = "yield"
                             /\ UNCHANGED <<currentEvent, finalThreadId>>
                        ELSE /\ currentEvent' = <<>>
                             /\ pc' = AfterLine(rest)
                             /\ UNCHANGED <<finalThreadId, tokens>>
                ELSE IF currentEvent = DONE
                THEN /\ finalThreadId' = IF finalThreadId = <<>>
                                        THEN DoneValue(DataOf(line))
                                        ELSE finalThreadId
                     /\ currentEvent' = <<>>
                     /\ pc' = AfterLine(rest)
                     /\ UNCHANGED tokens
                ELSE /\ currentEvent' = <<>>
                     /\ pc' = AfterLine(rest)
                     /\ UNCHANGED <<finalThreadId, tokens>>
           ELSE /\ pc' = AfterLine(rest)
                /\ UNCHANGED <<currentEvent, finalThreadId, tokens>>
  /\ UNCHANGED <<input, pos, decoder, buffer, result, err, reader,
                 bodyRead, pulls, exchange, cuts>>

(***************************************************************************)
(* One iteration of  for (const line of lines)                             *)
(***************************************************************************)
ProcessLine ==
  /\ pc = "lines"
  /\ lines # <<>>
  /\ UNCHANGED ui
  /\ LET line == Head(lines)
         rest == Tail(lines)
     IN /\ lines' = rest
        /\ processed' = processed + 1
        /\ IF IsEventLine(line)
           THEN /\ currentEvent' = EventType(line)
                /\ pc' = AfterLine(rest)
                /\ UNCHANGED <<finalThreadId, tokens>>
           ELSE IF IsDataLine(line)
           THEN IF currentEvent = TOKEN
                THEN LET token == JSONParse(DataOf(line))
                     IN IF token # SyntaxError
                        THEN /\ tokens' = Append(tokens, token)
                             /\ pc' = "yield"
                             /\ UNCHANGED <<currentEvent, finalThreadId>>
                        ELSE /\ currentEvent' = <<>>
                             /\ pc' = AfterLine(rest)
                             /\ UNCHANGED <<finalThreadId, tokens>>
                ELSE IF currentEvent = DONE
                THEN /\ finalThreadId' = DoneValue(DataOf(line))
                     /\ currentEvent' = <<>>
                     /\ pc' = AfterLine(rest)
                     /\ UNCHANGED tokens
                ELSE /\ currentEvent' = <<>>
                     /\ pc' = AfterLine(rest)
                     /\ UNCHANGED <<finalThreadId, tokens>>
           ELSE /\ pc' = AfterLine(rest)
                /\ UNCHANGED <<currentEvent, finalThreadId, tokens>>
  /\ UNCHANGED <<input, pos, decoder, buffer, result, err, reader,
                 bodyRead, pulls, exchange, cuts>>

\* The consumer's next() at a yield when the reset of currentEvent is
\* skipped after a token.
ResumeKeep ==
  /\ pc = "yield"
  /\ processed' = processed
  /\ UNCHANGED ui
  /\ pc' = AfterLine(lines)
  /\ pulls' = pulls + 1
  /\ UNCHANGED <<input, pos, decoder, buffer, lines, currentEvent,
                 finalThreadId, tokens, result, err, reader, bodyRead,
                 exchange, cuts>>

(***************************************************************************)
(* The consumer's next() while the generator is suspended at yield token:  *)
(* the body continues with  currentEvent = ''                              *)
(***************************************************************************)
Resume ==
  /\ pc = "yield"
  /\ processed' = processed
  /\ UNCHANGED ui
  /\ currentEvent' = <<>>
  /\ pc' = AfterLine(lines)
  /\ pulls' = pulls + 1
  /\ UNCHANGED <<input, pos, decoder, buffer, lines, finalThreadId,
                 tokens, result, err, reader, bodyRead, exchange,
                 cuts>>

(***************************************************************************)
(* The consumer leaves the iteration while the generator is suspended at   *)
(* yield token: return() completes the generator at the yield.  The try    *)
(* statement has a catch block and no finally block, so no statement of    *)
(* the body runs.                                                          *)
(***************************************************************************)
Return ==
  /\ pc = "yield"
  /\ processed' = processed
  /\ UNCHANGED ui
  /\ pc' = "returned"
  /\ UNCHANGED <<input, pos, decoder, buffer, lines, currentEvent,
                 finalThreadId, tokens, result, err, reader, bodyRead, pulls,
                 exchange, cuts>>

Next ==
  \/ Pull
  \/ FetchSettled
  \/ ReadChunk
  \/ ReadDone
  \/ ReadError
  \/ ProcessLine
  \/ Resume
  \/ Return

Spec == Init /\ [][Next]_vars

\* The same program on the bodies whose lines all end with CR LF.
InitCRLF ==
  /\ body \in Bodies(MaxItems)
  /\ reqThreadId \in ThreadIds
  /\ pc = "start"
  /\ pos = 0
  /\ decoder = <<>>
  /\ buffer = <<>>
  /\ lines = <<>>
  /\ currentEvent = <<>>
  /\ finalThreadId = <<>>
  /\ tokens = <<>>
  /\ result = Undefined
  /\ err = "none"
  /\ reader = "none"
  /\ bodyRead = FALSE
  /\ pulls = 0
  /\ exchange = "pending"
  /\ cuts = {}
  /\ processed = 0
  /\ crlf = TRUE
  /\ ViewsAtRest

SpecCRLF == InitCRLF /\ [][Next]_vars

\* A read that can deliver bytes does so: weak fairness of ReadChunk, with
\* ENABLED <<ReadChunk>>_vars written out as its guard (a read is awaited and
\* bytes of the body are still to come; every chunk changes pos).
ReadFair ==
  \/ []<>~(pc = "read" /\ pos < Len(wire))
  \/ []<><<ReadChunk>>_vars

\* The states after construction for the bodies of at most MaxLiveBody bytes.
InitLive == Init /\ Len(wire) <= MaxLiveBody

\* The program where no step waits forever: the consumer keeps calling
\* next(), the fetch and every read settle, and the generator body runs on;
\* on the bodies of InitLive.
LiveSpec ==
  /\ InitLive
  /\ [][Next]_vars
  /\ WF_vars(Pull)
  /\ WF_vars(FetchSettled)
  /\ ReadFair
  /\ WF_vars(ReadDone)
  /\ WF_vars(ProcessLine)
  /\ WF_vars(Resume)

(***************************************************************************)
(* ChatView (src/ui/src/views/ChatView.vue): onMounted and sendMessage,    *)
(* with chatStream as the stream it iterates.  sendMessage is cut at its   *)
(* awaits; the steps of the generator between two next() calls are the     *)
(* actions above.                                                          *)
(***************************************************************************)
MaxRequests == 2

\* !value for a value read from localStorage
Truthy(v) == v.t = "string" /\ v.v # <<>>

\* content += token: the string the token converts to
ToText(v) == IF v.t = "number" /\ v.v = <<"-", "0">> THEN <<"0">> ELSE v.v

\* error.message of the Error chatStream throws
ErrorMessage(e) ==
  CASE e = "rejected" -> <<"Failed to fetch">>
    [] e = "not_ok" -> <<"API error: ">>
    [] e = "no_body" -> <<"No response body">>
    [] e = "read_failed" -> <<"network error">>
    [] e = "SyntaxError" -> <<"Unexpected token">>
    [] OTHER -> <<"Unknown error">>

ErrorPrefix == <<"E", "r", "r", "o", "r", ":", " ">>

\* The response bodies of the chat: nothing, a done event, a token event
\* with an empty payload, two token events.
ChatBodies == {<<>>, <<3>>, <<11>>, <<1, 6>>}

\* What localStorage can hold when the ChatView is created
StoredPaths == {Null, Str(<<"/", "v">>)}
StoredThreadIds == {Null, Str(<<"t", "0">>), Str(<<"t", "1">>)}

\* What the user can have in the input field
Inputs == {<<>>, <<" ">>, <<"h", "i">>}

\* No generator: before the first chatStream call, and once the for await
\* loop has ended and the generator it iterated is dropped
NoStream ==
  /\ body = <<>>
  /\ reqThreadId = Undefined
  /\ pc = "start"
  /\ pos = 0
  /\ decoder = <<>>
  /\ buffer = <<>>
  /\ lines = <<>>
  /\ currentEvent = <<>>
  /\ finalThreadId = <<>>
  /\ tokens = <<>>
  /\ result = Undefined
  /\ err = "none"
  /\ reader = "none"
  /\ bodyRead = FALSE
  /\ pulls = 0
  /\ exchange = "pending"
  /\ cuts = {}
  /\ processed = 0
  /\ crlf = FALSE

\* The for await loop has ended: the generator goes out of reach
DropStream ==
  /\ body' = <<>>
  /\ reqThreadId' = Undefined
  /\ pc' = "start"
  /\ pos' = 0
  /\ decoder' = <<>>
  /\ buffer' = <<>>
  /\ lines' = <<>>
  /\ currentEvent' = <<>>
  /\ finalThreadId' = <<>>
  /\ tokens' = <<>>
  /\ result' = Undefined
  /\ err' = "none"
  /\ reader' = "none"
  /\ bodyRead' = FALSE
  /\ pulls' = 0
  /\ exchange' = "pending"
  /\ cuts' = {}
  /\ processed' = 0
  /\ crlf' = FALSE

InitChat ==
  /\ NoStream
  /\ route = "chat"
  /\ storage \in [vaultPath : StoredPaths, threadId : StoredThreadIds]
  /\ messages = <<>>
  /\ inputMessage = <<>>
  /\ isLoading = FALSE
  /\ threadId = <<>>
  /\ chatVaultPath = <<>>
  /\ vpc = "created"
  /\ taken = 0
  /\ requests = 0
  /\ setupVaultPath = <<>>
  /\ isValidating = FALSE
  /\ setupError = <<>>
  /\ spc = "idle"
  /\ uuid = <<>>
  /\ uuids = 0

\* onMounted
Mounted ==
  /\ route = "chat"
  /\ vpc = "created"
  /\ IF ~Truthy(storage.vaultPath) \/ ~Truthy(storage.threadId)
     THEN /\ route' = "setup"
          /\ UNCHANGED <<chatVaultPath, threadId>>
     ELSE /\ chatVaultPath' = storage.vaultPath.v
          /\ threadId' = storage.threadId.v
          /\ route' = route
  /\ vpc' = "idle"
  /\ UNCHANGED <<stream, storage, messages, inputMessage, isLoading, taken,
                 requests, setup>>

\* v-model="inputMessage" of the input field, which is disabled while
\* isLoading
Type(v) ==
  /\ route = "chat"
  /\ vpc # "created"
  /\ ~isLoading
  /\ v # inputMessage
  /\ inputMessage' = v
  /\ UNCHANGED <<stream, route, storage, messages, isLoading, threadId,
                 chatVaultPath, vpc, taken, requests, setup>>

\* sendMessage, up to its first await
SendMessage ==
  /\ route = "chat"
  /\ vpc # "created"
  /\ requests < MaxRequests
  /\ IF Trim(inputMessage) = <<>> \/ isLoading
     THEN UNCHANGED <<messages, inputMessage, isLoading, vpc, requests>>
     ELSE /\ messages' = Append(messages, [role |-> "user",
                                           content |-> inputMessage])
          /\ inputMessage' = <<>>
          /\ isLoading' = TRUE
          /\ vpc' = "scroll"
          /\ requests' = requests + 1
  /\ UNCHANGED <<stream, route, storage, threadId, chatVaultPath, taken,
                 setup>>

\* sendMessage after await scrollToBottom(): the empty assistant message is
\* pushed and api.chatStream(request) makes a new generator
BeginStream ==
  /\ vpc = "scroll"
  /\ messages' = Append(messages, [role |-> "assistant", content |-> <<>>])
  /\ body' \in ChatBodies
  /\ reqThreadId' = Str(threadId)
  /\ crlf' = FALSE
  /\ pc' = "start"
  /\ pos' = 0
  /\ decoder' = <<>>
  /\ buffer' = <<>>
  /\ lines' = <<>>
  /\ currentEvent' = <<>>
  /\ finalThreadId' = <<>>
  /\ tokens' = <<>>
  /\ result' = Undefined
  /\ err' = "none"
  /\ reader' = "none"
  /\ bodyRead' = FALSE
  /\ pulls' = 0
  /\ exchange' = "pending"
  /\ cuts' = {}
  /\ processed' = 0
  /\ taken' = 0
  /\ vpc' = "stream"
  /\ UNCHANGED <<route, storage, inputMessage, isLoading, threadId,
                 chatVaultPath, requests, setup>>

\* for await: the first next()
ViewPull == vpc = "stream" /\ Pull

\* The loop body where the token is assigned to the content instead of
\* being appended to it.
TakeTokenAssign ==
  /\ vpc = "stream"
  /\ pc = "yield"
  /\ taken < Len(tokens)
  /\ messages' = [messages EXCEPT ![Len(messages)].content =
                                     ToText(tokens[Len(tokens)])]
  /\ taken' = taken + 1
  /\ UNCHANGED <<stream, route, storage, inputMessage, isLoading, threadId,
                 chatVaultPath, vpc, requests, setup>>

\* The body of the for await loop: lastMessage.content += token
TakeToken ==
  /\ vpc = "stream"
  /\ pc = "yield"
  /\ taken < Len(tokens)
  /\ messages' = [messages EXCEPT ![Len(messages)].content =
                                     @ \o ToText(tokens[Len(tokens)])]
  /\ taken' = taken + 1
  /\ UNCHANGED <<stream, route, storage, inputMessage, isLoading, threadId,
                 chatVaultPath, vpc, requests, setup>>

\* for await: the next() after the loop body and its await scrollToBottom()
ViewResume == vpc = "stream" /\ taken = Len(tokens) /\ Resume

\* The generator has returned and its value is taken as the new threadId,
\* in the view and in localStorage.
StreamDoneAdopt ==
  /\ vpc = "stream"
  /\ pc = "done"
  /\ isLoading' = FALSE
  /\ vpc' = "idle"
  /\ DropStream
  /\ threadId' = result.v
  /\ storage' = [storage EXCEPT !.threadId = result]
  /\ UNCHANGED <<route, messages, inputMessage, chatVaultPath,
                 taken, requests, setup>>

\* The generator has returned: the loop ends, finally
StreamDone ==
  /\ vpc = "stream"
  /\ pc = "done"
  /\ isLoading' = FALSE
  /\ vpc' = "idle"
  /\ DropStream
  /\ UNCHANGED <<route, storage, messages, inputMessage, threadId,
                 chatVaultPath, taken, requests, setup>>

\* The catch block without the finally block.
StreamFailedNoFinally ==
  /\ vpc = "stream"
  /\ pc = "failed"
  /\ LET m == [role |-> "assistant",
               content |-> ErrorPrefix \o ErrorMessage(err)]
     IN messages' = IF messages[Len(messages)].content = <<>>
                    THEN [messages EXCEPT ![Len(messages)] = m]
                    ELSE Append(messages, m)
  /\ vpc' = "idle"
  /\ DropStream
  /\ UNCHANGED <<route, storage, inputMessage, isLoading, threadId,
                 chatVaultPath, taken, requests, setup>>

\* The catch block where the error message is always pushed.
StreamFailedPush ==
  /\ vpc = "stream"
  /\ pc = "failed"
  /\ messages' = Append(messages,
                        [role |-> "assistant",
                         content |-> ErrorPrefix \o ErrorMessage(err)])
  /\ isLoading' = FALSE
  /\ vpc' = "idle"
  /\ DropStream
  /\ UNCHANGED <<route, storage, inputMessage, threadId,
                 chatVaultPath, taken, requests, setup>>

\* The generator has thrown: catch, finally
StreamFailed ==
  /\ vpc = "stream"
  /\ pc = "failed"
  /\ LET m == [role |-> "assistant",
               content |-> ErrorPrefix \o ErrorMessage(err)]
     IN messages' = IF messages[Len(messages)].content = <<>>
                    THEN [messages EXCEPT ![Len(messages)] = m]
                    ELSE Append(messages, m)
  /\ isLoading' = FALSE
  /\ vpc' = "idle"
  /\ DropStream
  /\ UNCHANGED <<route, storage, inputMessage, threadId,
                 chatVaultPath, taken, requests, setup>>

NextChat ==
  \/ Mounted
  \/ \E v \in Inputs : Type(v)
  \/ SendMessage
  \/ BeginStream
  \/ ViewPull
  \/ FetchSettled
  \/ ReadChunk
  \/ ReadDone
  \/ ReadError
  \/ ProcessLine
  \/ TakeToken
  \/ ViewResume
  \/ StreamDone
  \/ StreamFailed

SpecChat == InitChat /\ [][NextChat]_vars

(***************************************************************************)
(* The stored session: SetupView.validateAndContinue, ChatView.changeVault *)
(* and the router guards, over localStorage                                *)
(***************************************************************************)
\* Calls of crypto.randomUUID()
MaxUuids == 3

\* What the path field can hold
Paths == {<<>>, <<"/", "v">>, <<"/", "w">>}

\* The n-th value of crypto.randomUUID(): a fresh one at every call
RandomUUID(n) == <<"u", <<"0", "1", "2", "3", "4">>[n + 1]>>

\* How the promise of api.setVault can settle: resolved with status 'ok',
\* resolved with another status, rejected
SetVaultOutcomes == {"ok", "other", "rejected"}

\* Where router.push(to) lands, by the beforeEnter guards
Land(to, st) ==
  IF to = "setup"
  THEN IF Truthy(st.vaultPath) THEN "dashboard" ELSE "setup"
  ELSE IF ~Truthy(st.vaultPath) THEN "setup" ELSE to

\* The component instance of the route left is unmounted, that of the
\* route entered is created
EnterRoute(to) ==
  /\ route' = to
  /\ IF to = route
     THEN UNCHANGED <<threadId, chatVaultPath, vpc, setupVaultPath,
                      setupError>>
     ELSE /\ threadId' = <<>>
          /\ chatVaultPath' = <<>>
          /\ vpc' = "created"
          /\ setupVaultPath' = <<>>
          /\ setupError' = <<>>

InitVault ==
  /\ NoStream
  /\ storage \in {[vaultPath |-> Null, threadId |-> Null],
                  [vaultPath |-> Str(<<"/", "v">>),
                   threadId |-> Str(<<"t", "0">>)]}
  /\ route = Land("setup", storage)
  /\ messages = <<>>
  /\ inputMessage = <<>>
  /\ isLoading = FALSE
  /\ threadId = <<>>
  /\ chatVaultPath = <<>>
  /\ vpc = "created"
  /\ taken = 0
  /\ requests = 0
  /\ setupVaultPath = <<>>
  /\ isValidating = FALSE
  /\ setupError = <<>>
  /\ spc = "idle"
  /\ uuid = <<>>
  /\ uuids = 0

\* v-model="vaultPath" of the path field, and selectFolder
EditPath(v) ==
  /\ route = "setup"
  /\ spc \in {"idle", "await"}
  /\ v # setupVaultPath
  /\ setupVaultPath' = v
  /\ UNCHANGED <<stream, route, storage, chat, isValidating, setupError,
                 spc, uuid, uuids>>

\* validateAndContinue, up to await api.setVault(...)
ValidateAndContinue ==
  /\ route = "setup"
  /\ spc = "idle"
  /\ uuids < MaxUuids
  /\ IF setupVaultPath = <<>>
     THEN /\ setupError' = <<"Please select a vault path">>
          /\ UNCHANGED <<isValidating, spc, uuid, uuids>>
     ELSE /\ isValidating' = TRUE
          /\ setupError' = <<>>
          /\ uuid' = RandomUUID(uuids)
          /\ uuids' = uuids + 1
          /\ spc' = "await"
  /\ UNCHANGED <<stream, route, storage, chat, setupVaultPath>>

\* The promise of api.setVault settles
SetVaultSettles(outcome) ==
  /\ spc = "await"
  /\ spc' = outcome
  /\ UNCHANGED <<stream, route, storage, chat, setupVaultPath, isValidating,
                 setupError, uuid, uuids>>

\* validateAndContinue after the await: try, catch, finally
ValidateResume ==
  /\ spc \in SetVaultOutcomes
  /\ CASE spc = "ok" ->
            /\ storage' = [vaultPath |-> Str(setupVaultPath),
                           threadId |-> Str(uuid)]
            /\ EnterRoute(Land("chat", storage'))
       [] spc = "other" ->
            /\ setupError' = <<"Failed to configure vault">>
            /\ UNCHANGED <<storage, route, threadId, chatVaultPath, vpc,
                           setupVaultPath>>
       [] OTHER ->
            /\ setupError' = <<"Failed to fetch">>
            /\ UNCHANGED <<storage, route, threadId, chatVaultPath, vpc,
                           setupVaultPath>>
  /\ isValidating' = FALSE
  /\ spc' = "idle"
  /\ UNCHANGED <<stream, messages, inputMessage, isLoading, taken, requests,
                 uuid, uuids>>

\* changeVault where only the vault path is removed.
ChangeVaultPathOnly ==
  /\ route = "chat"
  /\ vpc = "idle"
  /\ storage' = [storage EXCEPT !.vaultPath = Null]
  /\ EnterRoute(Land("setup", storage'))
  /\ UNCHANGED <<stream, messages, inputMessage, isLoading, taken, requests,
                 isValidating, spc, uuid, uuids>>

\* changeVault
ChangeVault ==
  /\ route = "chat"
  /\ vpc = "idle"
  /\ storage' = [vaultPath |-> Null, threadId |-> Null]
  /\ EnterRoute(Land("setup", storage'))
  /\ UNCHANGED <<stream, messages, inputMessage, isLoading, taken, requests,
                 isValidating, spc, uuid, uuids>>

\* AppLayout.navigate: router.push(path) from a route of the layout
Navigate(to) ==
  /\ route \in {"chat", "dashboard"}
  /\ Land(to, storage) # route
  /\ EnterRoute(Land(to, storage))
  /\ UNCHANGED <<stream, storage, messages, inputMessage, isLoading, taken,
                 requests, isValidating, spc, uuid, uuids>>

NextVault ==
  \/ \E v \in Paths : EditPath(v)
  \/ ValidateAndContinue
  \/ \E outcome \in SetVaultOutcomes : SetVaultSettles(outcome)
  \/ ValidateResume
  \/ Mounted
  \/ ChangeVault
  \/ \E to \in {"setup", "chat", "dashboard"} : Navigate(to)

SpecVault == InitVault /\ [][NextVault]_vars

TypeOK ==
  /\ pc \in {"start", "fetch", "read", "lines", "yield", "done", "failed",
             "returned"}
  /\ pos \in 0..Len(wire)
  /\ err \in {"none", "rejected", "not_ok", "no_body", "read_failed",
              "SyntaxError"}
  /\ reader \in {"none", "locked", "released", "cancelled"}

(***************************************************************************)
(* Reference definitions: what a body says, independently of how it is     *)
(* cut into chunks                                                         *)
(***************************************************************************)
Max(S) == CHOOSE x \in S : \A y \in S : y <= x

\* The text of the first n bytes of the body, and its complete lines.
TextOf(n) == DecodeBytes(SubSeq(wire, 1, n), FALSE).text
CompleteLines(text) == Front(Split(text))
LinesRead == CompleteLines(TextOf(pos))
AllLines == CompleteLines(TextOf(Len(wire)))

\* The event type a data line at index i of ls is dispatched with: that of
\* the closest event: line before it, unless a data: line lies in between.
TypeAt(ls, i) ==
  LET P == {j \in 1..(i - 1) : IsEventLine(ls[j]) \/ IsDataLine(ls[j])}
  IN IF P = {} THEN <<>>
     ELSE IF IsEventLine(ls[Max(P)]) THEN Trim(Slice(ls[Max(P)], EventPrefixLen))
     ELSE <<>>

Payload(ls, i) == Trim(Slice(ls[i], DataPrefixLen))

TokenEvents(ls) ==
  {i \in 1..Len(ls) : IsDataLine(ls[i]) /\ TypeAt(ls, i) = TOKEN}
Decoded(ls) == {i \in TokenEvents(ls) : JSONParse(Payload(ls, i)) # SyntaxError}
Malformed(ls) == TokenEvents(ls) \ Decoded(ls)
DoneEvents(ls) ==
  {i \in 1..Len(ls) : IsDataLine(ls[i]) /\ TypeAt(ls, i) = DONE}

IsValue(v) == v # Undefined

\* The decoded payloads of the token events of ls, in line order.
ExpectedTokens(ls) ==
  SelectSeq([i \in 1..Len(ls) |->
               IF i \in Decoded(ls) THEN JSONParse(Payload(ls, i))
               ELSE Undefined], IsValue)

IsPrefix(s, t) == Len(s) <= Len(t) /\ s = SubSeq(t, 1, Len(s))

\* The for loop of chatStream run over ls without suspension: the tokens it
\* yields and the finalThreadId it leaves.
RECURSIVE RunLines(_, _, _, _)
RunLines(ls, ev, id, out) ==
  IF ls = <<>> THEN [tokens |-> out, id |-> id]
  ELSE LET line == Head(ls)
       IN IF IsEventLine(line)
          THEN RunLines(Tail(ls), EventType(line), id, out)
          ELSE IF IsDataLine(line)
          THEN IF ev = TOKEN
               THEN LET token == JSONParse(DataOf(line))
                    IN IF token # SyntaxError
                       THEN RunLines(Tail(ls), <<>>, id, Append(out, token))
                       ELSE RunLines(Tail(ls), <<>>, id, out)
               ELSE IF ev = DONE
               THEN RunLines(Tail(ls), <<>>, DoneValue(DataOf(line)), out)
               ELSE RunLines(Tail(ls), <<>>, id, out)
          ELSE RunLines(Tail(ls), ev, id, out)

\* The event records the dispatcher emits for ls: one for each data: line,
\* in line order, with the type it is dispatched with.
IsRecord(r) == r.type # <<"-">>
Records(ls) ==
  SelectSeq([i \in 1..Len(ls) |->
               IF IsDataLine(ls[i])
               THEN [type |-> TypeAt(ls, i), data |-> Payload(ls, i)]
               ELSE [type |-> <<"-">>, data |-> <<>>]], IsRecord)

WellFormed(r) == ~(r.type = TOKEN /\ JSONParse(r.data) = SyntaxError)

\* The producer over event records: the tokens and the id they give.
RECURSIVE Produce(_, _, _)
Produce(recs, id, out) ==
  IF recs = <<>> THEN [tokens |-> out, id |-> id]
  ELSE LET r == Head(recs)
       IN IF r.type = TOKEN
          THEN Produce(Tail(recs), id,
                       IF JSONParse(r.data) # SyntaxError
                       THEN Append(out, JSONParse(r.data)) ELSE out)
          ELSE IF r.type = DONE THEN Produce(Tail(recs), r.data, out)
          ELSE Produce(Tail(recs), id, out)

\* chatStream when the whole body arrives as a single chunk.
OneChunk ==
  LET d == DecodeStream(<<>>, wire)
  IN RunLines(LinesOf(Split(d.text)), <<>>, InitialThreadId(reqThreadId), <<>>)

(***************************************************************************)
(* C1  Chunk-boundary invariance: however the body is cut into chunks,     *)
(* when chatStream completes the tokens it has yielded, in order, and the  *)
(* id it returns are those obtained when the body is read as one chunk.    *)
(***************************************************************************)
ChunkBoundaryInvariance ==
  pc = "done" => /\ tokens = OneChunk.tokens
                 /\ result = Str(OneChunk.id)

ChunkBoundaryWitness ==
  /\ pc = "done"
  /\ cuts = {"line", "char"}
  /\ Len(tokens) >= 1
  /\ result # Str(InitialThreadId(reqThreadId))

(***************************************************************************)
(* C2  Token ordering: at every moment the tokens yielded so far are the   *)
(* first tokens, in the order of their data lines, of the token events     *)
(* whose data line is complete in the bytes read so far; so no token is    *)
(* yielded before the newline ending its data line was read, nor before a  *)
(* token whose data line ended earlier.                                    *)
(***************************************************************************)
TokenOrdering ==
  /\ IsPrefix(tokens, ExpectedTokens(LinesRead))
  /\ pc = "read" => tokens = ExpectedTokens(LinesRead)

TokenOrderingWitness ==
  /\ pc = "yield"
  /\ Len(tokens) = 2
  /\ tokens[1] # tokens[2]
  /\ pos < Len(wire)

(***************************************************************************)
(* C3  Exactly-once delivery: when chatStream completes, the number of     *)
(* tokens yielded is the number of token events whose data decoded, and    *)
(* the k-th token is the decoded payload of the k-th such event.           *)
(***************************************************************************)
ExactlyOnceDelivery ==
  pc = "done" =>
    LET D == Decoded(AllLines)
    IN /\ Len(tokens) = Cardinality(D)
       /\ \A i \in D :
            tokens[Cardinality({j \in D : j <= i})] =
              JSONParse(Payload(AllLines, i))

ExactlyOnceWitness ==
  /\ pc = "done"
  /\ Len(tokens) = 1
  /\ Cardinality({i \in 1..Len(AllLines) : IsDataLine(AllLines[i])}) = 2

(***************************************************************************)
(* C4  Every yielded value is a text string: a token event whose data is   *)
(* not a JSON string literal yields nothing.                               *)
(***************************************************************************)
TokensAreStrings == \A k \in 1..Len(tokens) : tokens[k].t = "string"

(***************************************************************************)
(* C5  Malformed token payloads are skipped without failure: the line      *)
(* loop passes over a token event whose data fails to decode without       *)
(* yielding, without raising an error and without touching the result,     *)
(* and leaves the dispatcher empty; at completion the tokens and the id    *)
(* are those produced from the events of the body with the malformed       *)
(* token events left out, and no error was raised.                         *)
(***************************************************************************)
AtMalformed ==
  /\ pc = "lines"
  /\ IsDataLine(Head(lines))
  /\ currentEvent = TOKEN
  /\ JSONParse(Payload(lines, 1)) = SyntaxError

MalformedSkipped ==
  /\ [][AtMalformed =>
          /\ tokens' = tokens
          /\ finalThreadId' = finalThreadId
          /\ err' = "none"
          /\ pc' \in {"lines", "read"}
          /\ currentEvent' = <<>>
          /\ lines' = Tail(lines)]_vars
  /\ [](pc = "done" =>
          LET r == Produce(SelectSeq(Records(AllLines), WellFormed),
                           InitialThreadId(reqThreadId), <<>>)
          IN tokens = r.tokens /\ result = Str(r.id) /\ err = "none")

MalformedSkippedWitness ==
  /\ pc = "done"
  /\ \E i \in Malformed(AllLines) :
       \E j \in Decoded(AllLines) \cup DoneEvents(AllLines) : i < j
  /\ tokens # <<>> \/ result # Str(InitialThreadId(reqThreadId))

(***************************************************************************)
(* C6  A done event sets the result to the trimmed text of its data line,  *)
(* not decoded, and yields no token; chatStream returns that value when    *)
(* the source is exhausted.                                                *)
(***************************************************************************)
AtDone ==
  /\ pc = "lines"
  /\ IsDataLine(Head(lines))
  /\ currentEvent = DONE

DoneSetsResult ==
  /\ [][AtDone => /\ finalThreadId' = Trim(Slice(Head(lines), DataPrefixLen))
                  /\ tokens' = tokens
                  /\ pc' # "yield"]_vars
  /\ [][pc' = "done" => result' = Str(finalThreadId)]_vars

DoneSetsResultWitness ==
  /\ pc = "done"
  /\ result = Str(<<QUOTE, "t", "2", QUOTE>>)

(***************************************************************************)
(* C7  The result changes only at a dispatched done event; a stream with   *)
(* no done event completes without error and returns request.thread_id,    *)
(* or the empty string when the caller supplied none.                      *)
(***************************************************************************)
OnlyDoneChangesResult ==
  /\ [][finalThreadId' # finalThreadId => AtDone \/ pc = "fetch"]_vars
  /\ [](pc = "read" /\ DoneEvents(LinesRead) = {} =>
          finalThreadId = (IF reqThreadId = Undefined THEN <<>>
                           ELSE reqThreadId.v))
  /\ [](pc = "done" /\ DoneEvents(AllLines) = {} =>
          /\ err = "none"
          /\ result = (IF reqThreadId = Undefined THEN Str(<<>>)
                       ELSE reqThreadId))

OnlyDoneChangesResultWitness ==
  /\ pc = "done"
  /\ DoneEvents(AllLines) = {}
  /\ tokens # <<>>
  /\ Malformed(AllLines) # {}
  /\ result = Str(<<"t", "0">>)

(***************************************************************************)
(* C8  Non-2xx short-circuit: when the HTTP exchange fails (fetch rejects, *)
(* status not 2xx, no body) chatStream has failed on the first pull, with  *)
(* no token yielded and no read of the body.                               *)
(***************************************************************************)
ExchangeFailed == exchange \in {"rejected", "not_ok", "no_body"}

ShortCircuit ==
  ExchangeFailed => /\ pc = "failed"
                    /\ err = exchange
                    /\ pulls = 1
                    /\ tokens = <<>>
                    /\ ~bodyRead
                    /\ pos = 0

ShortCircuitWitness ==
  /\ exchange = "not_ok"
  /\ pc = "failed"
  /\ wire # <<>>

(***************************************************************************)
(* C9  Failure is binary: whenever an error is surfaced to the consumer,   *)
(* no token was yielded before it.                                         *)
(***************************************************************************)
FailureIsBinary == pc = "failed" => tokens = <<>>

\* As amended: an error that follows tokens comes from a failed read of the
\* body, and follows the tokens of all the lines completed by the chunks
\* read before it; an error of the exchange follows no token.
FailureAfterTokens ==
  pc = "failed" =>
    IF tokens = <<>>
    THEN err # "none"
    ELSE /\ err = "read_failed"
         /\ exchange = "ok"
         /\ tokens = ExpectedTokens(LinesRead)

FailureAfterTokensWitness ==
  /\ pc = "failed"
  /\ Len(tokens) = 2
  /\ pos < Len(wire)

(***************************************************************************)
(* C10  Cancellation releases the source: when the consumer leaves the     *)
(* iteration while chatStream is suspended at a yield, the reader of the   *)
(* body has been released or cancelled.                                    *)
(***************************************************************************)
CancellationReleases == pc = "returned" => reader \in {"released", "cancelled"}

(***************************************************************************)
(* C11  End-of-stream discards the partial line: the step that completes   *)
(* chatStream yields nothing and leaves finalThreadId and the buffer as    *)
(* they are, and at completion the text after the last newline is still    *)
(* in the buffer, the tokens and the returned id being those of the lines  *)
(* before it alone.                                                        *)
(***************************************************************************)
PartialLineDiscarded ==
  /\ [][pc' = "done" => /\ tokens' = tokens
                        /\ finalThreadId' = finalThreadId
                        /\ buffer' = buffer]_vars
  /\ [](pc = "done" =>
          LET segs == Split(TextOf(Len(wire)))
              r == Produce(Records(Front(segs)), InitialThreadId(reqThreadId),
                           <<>>)
          IN /\ buffer = Last(segs)
             /\ tokens = r.tokens
             /\ result = Str(r.id))

PartialLineDiscardedWitness ==
  /\ pc = "done"
  /\ IsDataLine(buffer)
  /\ currentEvent = TOKEN
  /\ JSONParse(Payload(<<buffer>>, 1)) = Str(<<"A">>)
  /\ tokens = <<>>

(***************************************************************************)
(* C12  Only one data: line is recognised per event: line: a data: line    *)
(* that follows another data: line with no event: line between them is     *)
(* dispatched with the empty type, yields no token and leaves the result   *)
(* unchanged; a yielded token is the decoded payload of one data: line     *)
(* alone.                                                                  *)
(***************************************************************************)
\* Line i of ls is a data: line and the closest event: or data: line before
\* it is a data: line.
FollowsData(ls, i) ==
  LET P == {j \in 1..(i - 1) : IsEventLine(ls[j]) \/ IsDataLine(ls[j])}
  IN /\ i <= Len(ls)
     /\ IsDataLine(ls[i])
     /\ P # {}
     /\ IsDataLine(ls[Max(P)])

OneDataPerEvent ==
  /\ [][pc = "lines" /\ FollowsData(LinesRead, processed + 1) =>
          /\ currentEvent = <<>>
          /\ tokens' = tokens
          /\ finalThreadId' = finalThreadId
          /\ pc' # "yield"]_vars
  /\ [][pc = "lines" /\ pc' = "yield" =>
          tokens' = Append(tokens, JSONParse(Trim(Slice(Head(lines),
                                                        DataPrefixLen))))]_vars

OneDataPerEventWitness ==
  /\ pc = "lines"
  /\ FollowsData(LinesRead, processed + 1)
  /\ tokens # <<>>
  /\ JSONParse(Payload(lines, 1)).t = "string"

(***************************************************************************)
(* C13  CRLF/LF equivalence: on a body whose lines all end with CR LF,     *)
(* chatStream completes with the tokens and the id that the same body      *)
(* with LF line ends gives; the carriage return never becomes part of an   *)
(* event type, a token or the id, and a line that is a lone carriage       *)
(* return changes nothing.                                                 *)
(***************************************************************************)
NoCR(s) == \A i \in 1..Len(s) : s[i] # CR

\* What the line loop gives on the body with LF line ends.
OnLF ==
  RunLines(CompleteLines(DecodeBytes(Concat(body), FALSE).text), <<>>,
           InitialThreadId(reqThreadId), <<>>)

CRLFEquivalence ==
  /\ [](crlf /\ pc = "done" => tokens = OnLF.tokens /\ result = Str(OnLF.id))
  /\ [](crlf => /\ NoCR(currentEvent)
                /\ NoCR(finalThreadId)
                /\ \A k \in 1..Len(tokens) : NoCR(tokens[k].v))
  /\ [][crlf /\ pc = "lines" /\ Head(lines) = <<CR>> =>
          UNCHANGED <<currentEvent, finalThreadId, tokens>>]_vars

CRLFEquivalenceWitness ==
  /\ crlf
  /\ pc = "done"
  /\ tokens # <<>>
  /\ DoneEvents(AllLines) # {}
  /\ \E i \in 1..Len(AllLines) : AllLines[i] = <<CR>>

(***************************************************************************)
(* C14  Pull-driven backpressure: nothing is requested or read before the  *)
(* first pull; the generator runs only while a pull of the consumer is     *)
(* outstanding; and a chunk is read only when every complete line of the   *)
(* chunks read before has been iterated and every token they produce has   *)
(* been handed to the consumer.                                            *)
(***************************************************************************)
PullDriven ==
  /\ [](pc = "start" => pulls = 0 /\ exchange = "pending" /\ ~bodyRead)
  /\ [](pc = "yield" => pulls = Len(tokens))
  /\ [](pc \in {"fetch", "read", "lines"} => pulls = Len(tokens) + 1)
  /\ [][exchange' # exchange => pc = "fetch" /\ pulls = 1]_vars
  /\ [][pos' # pos =>
          /\ pc = "read"
          /\ lines = <<>>
          /\ processed = Len(LinesRead)
          /\ tokens = ExpectedTokens(LinesRead)
          /\ pulls = Len(tokens) + 1]_vars

PullDrivenWitness ==
  /\ pc = "lines"
  /\ pulls = 2
  /\ Len(tokens) = 1
  /\ Len(ExpectedTokens(LinesRead)) = 2
  /\ processed > 0
  /\ cuts # {}

(***************************************************************************)
(* C15  Termination: when the exchange and every read succeed and the      *)
(* consumer keeps pulling, chatStream eventually completes, returning      *)
(* finalThreadId; it completes only at the end of the stream, with the     *)
(* whole body read and the line loop finished, never before.               *)
(***************************************************************************)
Termination ==
  /\ ([](pc \notin {"failed", "returned"}) => <>(pc = "done"))
  /\ [][pc # "done" /\ pc' = "done" =>
          /\ pc = "read"
          /\ pos = Len(wire)
          /\ lines = <<>>
          /\ result' = Str(finalThreadId)]_vars

TerminationWitness ==
  /\ pc = "done"
  /\ tokens # <<>>
  /\ \E i \in DoneEvents(AllLines) : \E j \in Decoded(AllLines) : i < j

(***************************************************************************)
(* C16  PendingBuffer invariant: wherever chatStream awaits the next read, *)
(* buffer is the part of the text received so far that follows its last    *)
(* newline, the whole text when it has no newline; buffer never holds a    *)
(* newline.                                                                *)
(***************************************************************************)
AfterLastNewline(text) ==
  LET P == {i \in 1..Len(text) : text[i] = LF}
      k == IF P = {} THEN 0 ELSE Max(P)
  IN SubSeq(text, k + 1, Len(text))

PendingBufferInvariant ==
  /\ pc = "read" => buffer = AfterLastNewline(TextOf(pos))
  /\ \A i \in 1..Len(buffer) : buffer[i] # LF

PendingBufferWitness ==
  /\ pc = "read"
  /\ pos < Len(wire)
  /\ buffer # <<>>
  /\ buffer # TextOf(pos)
  /\ "line" \in cuts

(***************************************************************************)
(* C17  Each newline-terminated line is processed exactly once, in order:  *)
(* the lines still to process are the lines received less the processed    *)
(* ones, the loop takes them one at a time, and all lines completed by a   *)
(* chunk (the text received split on newline, less its last segment) have  *)
(* been processed before the next read is awaited.  A line cut by chunk    *)
(* ends is processed whole, with the chunk that brings its newline.        *)
(***************************************************************************)
EachLineOnce ==
  /\ [](lines = SubSeq(LinesRead, processed + 1, Len(LinesRead)))
  /\ [](pc \in {"read", "done"} /\ bodyRead => processed = Len(LinesRead))
  /\ [][processed' # processed =>
          /\ pc = "lines"
          /\ processed' = processed + 1
          /\ Head(lines) = CompleteLines(TextOf(Len(wire)))[processed']]_vars

EachLineOnceWitness ==
  /\ pc = "read"
  /\ pos < Len(wire)
  /\ processed >= 2
  /\ "line" \in cuts
  /\ buffer # <<>>

(***************************************************************************)
(* C18  An event: line sets currentEvent to the trimmed rest of the line,  *)
(* whatever currentEvent was; it yields no token and leaves finalThreadId, *)
(* the result and buffer alone.  After a run of event: lines currentEvent  *)
(* is the type of the last one.                                            *)
(***************************************************************************)
EventLineTransition ==
  /\ [][pc = "lines" /\ StartsWith(Head(lines), EVENT) =>
          /\ currentEvent' = Trim(Slice(Head(lines), EventPrefixLen))
          /\ pc' # "yield"
          /\ UNCHANGED <<tokens, finalThreadId, result, buffer>>]_vars
  /\ [](/\ pc \in {"lines", "read", "done"}
        /\ processed >= 1
        /\ StartsWith(LinesRead[processed], EVENT)
        => currentEvent = Trim(Slice(LinesRead[processed], EventPrefixLen)))

EventLineTransitionWitness ==
  /\ pc = "lines"
  /\ processed >= 2
  /\ IsEventLine(LinesRead[processed - 1])
  /\ EventType(LinesRead[processed - 1]) = TOKEN
  /\ IsEventLine(LinesRead[processed])
  /\ currentEvent = DONE
  /\ IsDataLine(Head(lines))
  /\ tokens = <<>>

(***************************************************************************)
(* C19  currentEvent is empty once a data: line has been processed,        *)
(* whatever it was before and whatever the line led to: a token yielded    *)
(* (the reset follows the yield, when the consumer resumes the generator), *)
(* a payload that failed to parse, a done recorded, or a type ignored.     *)
(***************************************************************************)
ResetAfterData ==
  /\ [][pc = "lines" /\ IsDataLine(Head(lines)) /\ pc' # "yield" =>
          currentEvent' = <<>>]_vars
  /\ [][pc = "yield" /\ pc' \in {"lines", "read"} => currentEvent' = <<>>]_vars
  /\ [](/\ pc \in {"lines", "read", "done"}
        /\ processed >= 1
        /\ IsDataLine(LinesRead[processed])
        => currentEvent = <<>>)

ResetAfterDataWitness ==
  /\ pc = "lines"
  /\ currentEvent = <<>>
  /\ tokens # <<>>
  /\ processed \in Decoded(LinesRead)
  /\ IsDataLine(Head(lines))

(***************************************************************************)
(* C20  A line that begins with neither event: nor data: changes nothing:  *)
(* currentEvent, finalThreadId, the result and buffer keep their values    *)
(* and no token is yielded.  A data: line is therefore dispatched with the *)
(* type of the closest event: line before it when only such lines lie in   *)
(* between.                                                                *)
(***************************************************************************)
IsOtherLine(line) == ~StartsWith(line, EVENT) /\ ~StartsWith(line, DATA)

OtherLinesIgnored ==
  /\ [][pc = "lines" /\ IsOtherLine(Head(lines)) =>
          /\ pc' # "yield"
          /\ UNCHANGED <<currentEvent, finalThreadId, tokens, result,
                         buffer>>]_vars
  /\ [](pc = "lines" /\ StartsWith(Head(lines), DATA) =>
          currentEvent = TypeAt(LinesRead, processed + 1))

OtherLinesIgnoredWitness ==
  /\ pc = "yield"
  /\ processed >= 3
  /\ IsEventLine(LinesRead[processed - 2])
  /\ IsOtherLine(LinesRead[processed - 1])
  /\ IsDataLine(LinesRead[processed])
  /\ tokens # <<>>
  /\ tokens[Len(tokens)] = JSONParse(Payload(LinesRead, processed))

(***************************************************************************)
(* C21  A data: line dispatched with a type that is neither exactly token  *)
(* nor exactly done (the empty type, a type in another letter case) yields *)
(* no token and leaves finalThreadId and the result as they are.           *)
(***************************************************************************)
OtherTypesIgnored ==
  [][/\ pc = "lines"
     /\ StartsWith(Head(lines), DATA)
     /\ currentEvent # TOKEN
     /\ currentEvent # DONE
     => /\ pc' # "yield"
        /\ UNCHANGED <<tokens, finalThreadId, result>>]_vars

OtherTypesIgnoredWitness ==
  /\ pc \in {"lines", "read"}
  /\ processed >= 1
  /\ IsDataLine(LinesRead[processed])
  /\ TypeAt(LinesRead, processed) = <<"T", "o", "k", "e", "n">>
  /\ JSONParse(Payload(LinesRead, processed)) = Str(<<"A">>)
  /\ tokens = <<>>
  /\ finalThreadId = <<"t", "0">>

(***************************************************************************)
(* C23  A done event does not stop decoding: the line loop goes on after   *)
(* it, and the tokens yielded by the time chatStream completes are those   *)
(* of the stream's events with the done events left out.                   *)
(***************************************************************************)
NotDone(r) == r.type # DONE

DoneDoesNotStop ==
  /\ [][pc = "lines" /\ StartsWith(Head(lines), DATA) /\ currentEvent = DONE =>
          pc' = (IF Len(lines) > 1 THEN "lines" ELSE "read")]_vars
  /\ [](pc = "done" =>
          tokens = Produce(SelectSeq(Records(AllLines), NotDone),
                           <<>>, <<>>).tokens)

DoneDoesNotStopWitness ==
  /\ pc = "yield"
  /\ processed \in Decoded(LinesRead)
  /\ \E i \in DoneEvents(LinesRead) : i < processed
  /\ finalThreadId = <<QUOTE, "t", "2", QUOTE>>

(***************************************************************************)
(* C24  Of several done events the last decides: chatStream returns the    *)
(* data of the last done event among the complete lines of the stream,     *)
(* whatever earlier done events and the caller's thread_id said.           *)
(***************************************************************************)
LastDoneWins ==
  pc = "done" /\ DoneEvents(AllLines) # {} =>
    result = Str(Trim(Slice(AllLines[Max(DoneEvents(AllLines))],
                            DataPrefixLen)))

LastDoneWinsWitness ==
  /\ pc = "done"
  /\ Cardinality(DoneEvents(AllLines)) = 2
  /\ reqThreadId # Undefined
  /\ \E i \in DoneEvents(AllLines) :
       /\ Payload(AllLines, i) # Payload(AllLines, Max(DoneEvents(AllLines)))
       /\ Payload(AllLines, i) # <<>>

(***************************************************************************)
(* C22  ChatView.sendMessage takes the tokens one at a time and appends    *)
(* each to the assistant message pushed for the request: while the stream  *)
(* is consumed that message is the last one and its content is the         *)
(* concatenation, in order, of the tokens taken so far; when the stream    *)
(* completes normally it is the concatenation of all yielded tokens; the   *)
(* user message before it and all earlier messages stay as they were.      *)
(***************************************************************************)
RECURSIVE Flat(_, _)
Flat(ts, n) == IF n = 0 THEN <<>> ELSE Flat(ts, n - 1) \o ToText(ts[n])

Earlier(ms) == SubSeq(ms, 1, Len(ms) - 1)

TokensAccumulated ==
  /\ [](vpc = "stream" =>
          /\ Len(messages) >= 2
          /\ messages[Len(messages)] =
               [role |-> "assistant", content |-> Flat(tokens, taken)]
          /\ messages[Len(messages) - 1].role = "user"
          /\ Len(tokens) - taken \in {0, 1})
  /\ [][vpc = "stream" /\ vpc' = "stream" =>
          /\ Len(messages') = Len(messages)
          /\ Earlier(messages') = Earlier(messages)
          /\ taken' \in {taken, taken + 1}]_vars
  /\ [][vpc = "stream" /\ pc = "done" /\ vpc' = "idle" =>
          /\ Earlier(messages') = Earlier(messages)
          /\ messages'[Len(messages')] =
               [role |-> "assistant",
                content |-> Flat(tokens, Len(tokens))]]_vars

TokensAccumulatedWitness ==
  /\ vpc = "stream"
  /\ pc = "done"
  /\ requests = 2
  /\ Len(tokens) = 2
  /\ messages[Len(messages)].content = <<"A", "1">>
  /\ Len(messages) = 4

(***************************************************************************)
(* C25  At most one stream is in flight per ChatView.  A sendMessage with  *)
(* isLoading true or with a blank input changes nothing and starts no      *)
(* request; a request starts only from a state that is not loading;        *)
(* isLoading is true exactly from the start of a request until its stream  *)
(* has completed or failed, so it is false again after the request on      *)
(* both paths, and a generator exists only while isLoading is true.        *)
(***************************************************************************)
OneStreamInFlight ==
  /\ [][(isLoading \/ Trim(inputMessage) = <<>>) /\ SendMessage =>
          UNCHANGED vars]_vars
  /\ [][requests' # requests =>
          /\ ~isLoading /\ isLoading'
          /\ Trim(inputMessage) # <<>>
          /\ requests' = requests + 1]_vars
  /\ [](isLoading <=> vpc \in {"scroll", "stream"})
  /\ [](~isLoading \/ vpc = "scroll" => NoStream)
  /\ [][vpc' = "idle" /\ vpc = "stream" =>
          pc \in {"done", "failed"} /\ ~isLoading']_vars

OneStreamInFlightWitness ==
  /\ requests = 2
  /\ vpc = "idle"
  /\ ~isLoading
  /\ Len(messages) = 4
  /\ messages[2].content = ErrorPrefix \o ErrorMessage("read_failed")
  /\ messages[4].content = <<"A", "1">>

(***************************************************************************)
(* C26  Error display of ChatView.  As stated: a failure before any token  *)
(* was appended replaces the empty placeholder by the error message, and   *)
(* a failure after at least one token was appended keeps the assistant     *)
(* message and pushes the error message after it.                          *)
(***************************************************************************)
ErrorEntry == [role |-> "assistant",
               content |-> ErrorPrefix \o ErrorMessage(err)]

ErrorDisplayByTokens ==
  [][vpc = "stream" /\ pc = "failed" /\ vpc' = "idle" =>
       IF taken = 0
       THEN messages' = [messages EXCEPT ![Len(messages)] = ErrorEntry]
       ELSE messages' = Append(messages, ErrorEntry)]_vars

(***************************************************************************)
(* C26, as the code has it: the test is on the text appended so far, not   *)
(* on the number of tokens.  When chatStream fails while the assistant     *)
(* message of the request is still empty (no token was appended, or only   *)
(* tokens whose text is empty), that message is replaced by the error      *)
(* message and the request has added exactly two entries; when some text   *)
(* was appended, the message is kept and the error message is pushed       *)
(* after it.  The user message and all earlier messages are unchanged.     *)
(***************************************************************************)
ErrorDisplay ==
  [][vpc = "stream" /\ pc = "failed" /\ vpc' = "idle" =>
       /\ Earlier(messages') =
            (IF Flat(tokens, taken) = <<>>
             THEN Earlier(messages) ELSE messages)
       /\ messages'[Len(messages')] = ErrorEntry
       /\ messages'[Len(messages) - 1] = messages[Len(messages) - 1]
       /\ messages[Len(messages) - 1].role = "user"]_vars

ErrorDisplayWitness ==
  /\ requests = 2
  /\ vpc = "stream"
  /\ pc = "failed"
  /\ taken = 1
  /\ Len(messages) = 5
  /\ messages[2].content = <<"A">>
  /\ messages[3].content = ErrorPrefix \o ErrorMessage("read_failed")
  /\ messages[5].content = <<>>

(***************************************************************************)
(* C28  The consumer does not propagate the terminal id.  Once the         *)
(* ChatView is mounted its threadId never changes, sendMessage never       *)
(* writes localStorage, whatever value the generator returns, and every    *)
(* request carries as thread_id the threadId read from localStorage at     *)
(* mount.                                                                  *)
(***************************************************************************)
TerminalIdNotPropagated ==
  /\ [][vpc # "created" => threadId' = threadId]_vars
  /\ [][storage' = storage]_vars
  /\ [](vpc = "stream" =>
          /\ reqThreadId = Str(threadId)
          /\ reqThreadId = storage.threadId)
  /\ [][vpc = "stream" /\ pc = "done" /\ vpc' = "idle" =>
          UNCHANGED <<threadId, storage>>]_vars

TerminalIdNotPropagatedWitness ==
  /\ requests = 2
  /\ vpc = "stream"
  /\ pc = "done"
  /\ result # reqThreadId
  /\ result.t = "string"
  /\ threadId = <<"t", "1">>

(***************************************************************************)
(* C27  Stored session.  After any sequence of validateAndContinue and     *)
(* changeVault, localStorage holds 'vaultPath' exactly when it holds       *)
(* 'threadId'; validateAndContinue writes both entries only when setVault  *)
(* returned status 'ok' and writes neither when it failed or returned      *)
(* another status; changeVault removes both.                               *)
(***************************************************************************)
Holds(key) == storage[key] # Null

StoredSession ==
  /\ [](Holds("vaultPath") <=> Holds("threadId"))
  /\ [][spc = "ok" /\ spc' = "idle" =>
          storage' = [vaultPath |-> Str(setupVaultPath),
                      threadId |-> Str(uuid)]]_vars
  /\ [][(spc = "other" \/ spc = "rejected") /\ spc' = "idle" =>
          storage' = storage]_vars
  /\ [][route = "chat" /\ route' = "setup" =>
          storage' = [vaultPath |-> Null, threadId |-> Null]]_vars
  /\ [][storage' # storage =>
          \/ spc = "ok" /\ spc' = "idle"
          \/ route = "chat" /\ route' = "setup"]_vars

StoredSessionWitness ==
  /\ uuids >= 2
  /\ spc = "idle"
  /\ route = "chat"
  /\ vpc = "idle"
  /\ storage = [vaultPath |-> Str(<<"/", "w">>),
                threadId |-> Str(RandomUUID(1))]
  /\ threadId = RandomUUID(1)

====
